---- MODULE Spec2Model ----
(***************************************************************************)
(* Lot ledger and trade matching of hledger_toolbox/utils.py:              *)
(* CommodityLotsManager, trade_lots, _trade_to_close_postings and          *)
(* SplitParser.                                                            *)
(*                                                                         *)
(* decimal.Decimal values are modelled as exact fractions [n, d] in lowest *)
(* terms (the 28-digit rounding of the default decimal context is not      *)
(* modelled); lot quantities and trade deltas are the integral Decimals.   *)
(* datetime values are day numbers counted from 2020-01-01.                *)
(***************************************************************************)
EXTENDS Integers, Sequences, FiniteSets, TLC

VARIABLES lots, end_date, last, nops,
          parser,         \* the split processor in use: utils.SplitParser or
                          \* fidelity._SplitParser
          lots_manager,   \* its _lots_manager is not None
          base_account,   \* _SplitParser._base_account
          cache,          \* its _cache
          split_last,     \* outcome of its latest call
          legs,           \* the split legs processed so far
          symbol_call     \* a call of map_options_commodity_symbol: its
                          \* argument and, once it returned, its result

split_vars == <<parser, lots_manager, base_account, cache, split_last, legs>>
vars == <<lots, end_date, last, nops, parser, lots_manager, base_account, cache,
          split_last, legs, symbol_call>>

(* ---------------------------------------------------------------- bounds *)
MaxOps == 2
MaxLots == 3
MaxLegs == 4
MaxAccesses == 4
MaxSymbolLen == 3

(* --------------------------------------------------- decimal.Decimal *)
Abs(x) == IF x < 0 THEN -x ELSE x

RECURSIVE GCD(_, _)
GCD(a, b) == IF b = 0 THEN a ELSE GCD(b, a % b)

Frac(n, d) ==
    LET s == IF d < 0 THEN -1 ELSE 1
        g == GCD(Abs(n), Abs(d))
    IN  [n |-> (s * n) \div g, d |-> (s * d) \div g]

Dec(i) == [n |-> i, d |-> 1]
DAdd(a, b) == Frac(a.n * b.d + b.n * a.d, a.d * b.d)
DSub(a, b) == Frac(a.n * b.d - b.n * a.d, a.d * b.d)
DMul(a, b) == Frac(a.n * b.n, a.d * b.d)
DDiv(a, b) == Frac(a.n * b.d, a.d * b.n)
DAbs(a) == [n |-> Abs(a.n), d |-> a.d]
DZero == Dec(0)

(* ------------------------------------------------------------ symbols *)
BaseAccount == "assets:broker"
AAA == <<"A", "A", "A">>
B2 == <<"B", "2">>
Commodities == {AAA, B2}
Keys == {BaseAccount} \X Commodities

accounts ==
    [base_account |-> BaseAccount,
     short_term_account |-> "revenues:investment:short_term",
     long_term_account |-> "revenues:investment:long_term"]

LowerChar(c) ==
    CASE c = "A" -> "a"
      [] c = "B" -> "b"
      [] OTHER -> c

Lower(s) == [i \in 1..Len(s) |-> LowerChar(s[i])]

Digits == <<"0", "1", "2", "3", "4", "5", "6", "7", "8", "9">>
Letters == <<"a", "b", "c", "d", "e", "f", "g", "h", "i", "j">>

OptionsSymbolMapper(c) ==
    IF \E i \in 1..10 : Digits[i] = c
    THEN Letters[CHOOSE i \in 1..10 : Digits[i] = c]
    ELSE IF c = "." THEN "_" ELSE c

RECURSIVE LStrip(_, _)
LStrip(s, chars) ==
    IF s # <<>> /\ Head(s) \in chars THEN LStrip(Tail(s), chars) ELSE s

RECURSIVE RStrip(_, _)
RStrip(s, chars) ==
    IF s # <<>> /\ s[Len(s)] \in chars
    THEN RStrip(SubSeq(s, 1, Len(s) - 1), chars)
    ELSE s

Strip(s, chars) == RStrip(LStrip(s, chars), chars)

map_options_commodity_symbol(with_numbers) ==
    LET stripped == Strip(Strip(with_numbers, {" "}), {"-", "+"})
    IN  [i \in 1..Len(stripped) |-> OptionsSymbolMapper(stripped[i])]

\* the characters the symbols are drawn from: a digit, a letter the digits are
\* mapped to, ".", "_", the stripped characters and a letter left alone
SymbolChars == {"1", "b", ".", "_", " ", "-", "X"}
Symbols == UNION {[1..n -> SymbolChars] : n \in 0..MaxSymbolLen}

SymbolCall(with_numbers, returned, result) ==
    [with_numbers |-> with_numbers, returned |-> returned, result |-> result]
NoSymbolCall == SymbolCall(<<>>, FALSE, <<>>)

(* --------------------------------------------------------------- lots *)
NoDate == -1
LongTermDays == 365

Price(price_type, value) == [price_type |-> price_type, value |-> value]
NoPrice == Price("NONE", DZero)

CommodityLot(date, quantity, price) ==
    [date |-> date, quantity |-> quantity, price |-> price]

\* CommodityLot.unit_price
UnitPrice(lot) ==
    IF lot.price.price_type = "UNIT" THEN lot.price
    ELSE Price("UNIT", DDiv(lot.price.value, Dec(lot.quantity)))

\* rows of `hledger bal <base>:<commodity>: -O csv`, in account-name order
JournalRows(k) ==
    IF k[2] = AAA
    THEN <<CommodityLot(0, 5, Price("UNIT", Dec(100))),
           CommodityLot(152, 5, Price("UNIT", Dec(120)))>>
    ELSE <<CommodityLot(32, -5, Price("UNIT", Dec(2))),
           CommodityLot(33, -5, Price("UNIT", Dec(3)))>>

\* bisect.bisect_left(a, x) with CommodityLot.__lt__
RECURSIVE BisectLeftFrom(_, _, _, _)
BisectLeftFrom(a, date, lo, hi) ==
    IF lo < hi
    THEN LET mid == (lo + hi) \div 2
         IN  IF a[mid + 1].date < date
             THEN BisectLeftFrom(a, date, mid + 1, hi)
             ELSE BisectLeftFrom(a, date, lo, mid)
    ELSE lo

BisectLeft(a, date) == BisectLeftFrom(a, date, 0, Len(a))

\* bisect.insort(a, x): insort_right
RECURSIVE BisectRightFrom(_, _, _, _)
BisectRightFrom(a, date, lo, hi) ==
    IF lo < hi
    THEN LET mid == (lo + hi) \div 2
         IN  IF date < a[mid + 1].date
             THEN BisectRightFrom(a, date, lo, mid)
             ELSE BisectRightFrom(a, date, mid + 1, hi)
    ELSE lo

InsortPruning(a, lot) ==
    LET IsOpenLot(x) == x.quantity # 0
        b == SelectSeq(a, IsOpenLot)
        ind == BisectRightFrom(b, lot.date, 0, Len(b))
    IN  SubSeq(b, 1, ind) \o <<lot>> \o SubSeq(b, ind + 1, Len(b))

InsortAtEnd(a, lot) ==
    Append(a, lot)

Insort(a, lot) ==
    LET ind == BisectRightFrom(a, lot.date, 0, Len(a))
    IN  SubSeq(a, 1, ind) \o <<lot>> \o SubSeq(a, ind + 1, Len(a))

\* list.sort() with CommodityLot.__lt__: stable, ascending by date
RECURSIVE SortLots(_)
SortLots(rows) ==
    IF rows = <<>> THEN <<>>
    ELSE Insort(SortLots(SubSeq(rows, 1, Len(rows) - 1)), rows[Len(rows)])

RECURSIVE FilterRows(_, _)
FilterRows(rows, e) ==
    IF rows = <<>> THEN <<>>
    ELSE IF e = NoDate \/ Head(rows).date < e
         THEN <<Head(rows)>> \o FilterRows(Tail(rows), e)
         ELSE FilterRows(Tail(rows), e)

get_commodity_lots(k, e) == SortLots(FilterRows(JournalRows(k), e))

UpdateLotsRefetching(ls, k, e) ==
    [x \in DOMAIN ls \cup {k} |->
        IF x = k THEN get_commodity_lots(k, e) ELSE ls[x]]

\* CommodityLotsManager._update_lots on the dict ls
UpdateLots(ls, k, e) ==
    IF k \in DOMAIN ls THEN ls
    ELSE [x \in DOMAIN ls \cup {k} |->
            IF x = k THEN get_commodity_lots(k, e) ELSE ls[x]]

GetLotIndexNoDateTest(a, lot_date) ==
    LET ind == BisectLeft(a, lot_date)
    IN  IF 0 <= ind /\ ind < Len(a)
        THEN ind + 1
        ELSE 0

\* CommodityLotsManager.get_lot on a loaded key: index of the lot, 0 for None
GetLotIndex(a, lot_date) ==
    LET ind == BisectLeft(a, lot_date)
    IN  IF 0 <= ind /\ ind < Len(a) /\ a[ind + 1].date = lot_date
        THEN ind + 1
        ELSE 0

SellFromLotLe(ls0, k, date, quantity, e) ==
    LET ls == UpdateLots(ls0, k, e)
        i == GetLotIndex(ls[k], date)
    IN  IF i = 0 THEN [status |-> "LotNotFound", lots |-> ls]
        ELSE IF Abs(ls[k][i].quantity) <= Abs(quantity)
        THEN [status |-> "InsufficientLotQuantity", lots |-> ls]
        ELSE [status |-> "ok",
              lots |-> [ls EXCEPT ![k][i].quantity = @ - quantity]]

\* CommodityLotsManager.sell_from_lot: [status, lots]
sell_from_lot(ls0, k, date, quantity, e) ==
    LET ls == UpdateLots(ls0, k, e)
        i == GetLotIndex(ls[k], date)
    IN  IF i = 0 THEN [status |-> "LotNotFound", lots |-> ls]
        ELSE IF Abs(ls[k][i].quantity) < Abs(quantity)
        THEN [status |-> "InsufficientLotQuantity", lots |-> ls]
        ELSE [status |-> "ok",
              lots |-> [ls EXCEPT ![k][i].quantity = @ - quantity]]

(* ----------------------------------------------------------- postings *)
Amount(commodity, value) == [commodity |-> commodity, value |-> value]
dollar_amount(value) == Amount(<<"$">>, value)

Posting(account, amount, price) ==
    [account |-> account, amount |-> amount, price |-> price]

CashAccount(base) == [path |-> <<base, "cash">>, commodity |-> <<>>, date |-> NoDate]
LotAccount(base, commodity, date) ==
    [path |-> <<base>>, commodity |-> Lower(commodity), date |-> date]
PlainAccount(name) == [path |-> <<name>>, commodity |-> <<>>, date |-> NoDate]

Transaction(date, description, postings) ==
    [date |-> date, description |-> description, postings |-> postings]
NoTransaction == Transaction(NoDate, "", <<>>)

NoAverage == [given |-> FALSE, value |-> DZero]

Min(a, b) == IF a < b THEN a ELSE b

IsLongTermGt(date, lot_date) == date - lot_date > LongTermDays

\* the long-term test of _trade_to_close_postings
IsLongTerm(date, lot_date) == date - lot_date >= LongTermDays

GainLossSwapped(change, unit_price, lot_cost) ==
    DMul(Dec(change), DSub(lot_cost, unit_price))

\* gain/loss of one (change, lot) pair
GainLoss(change, unit_price, lot_cost) ==
    DMul(Dec(change), DSub(unit_price, lot_cost))

\* one pass of the for loop of _trade_to_close_postings, on its i-th
\* (change, lot) pair; a lot is referred to by its index in the key's list,
\* 0 being None
TradeToCloseStep(acc, i, k, date, unit_price, changes, refs, average, e) ==
    LET change == changes[i]
        ref == refs[i]
    IN  IF ref = 0 THEN [acc EXCEPT !.status = "AttributeError"]
        ELSE
          LET lot == acc.lots[k][ref]
              lot_cost == IF average.given THEN average.value
                          ELSE UnitPrice(lot).value
              lot_price == [lot.price EXCEPT !.value = lot_cost]
              gain == GainLoss(change, unit_price, lot_cost)
              long == IsLongTerm(date, lot.date)
              sold == sell_from_lot(acc.lots, k, lot.date, -change, e)
          IN  IF Abs(lot.quantity) < Abs(change)
              THEN [acc EXCEPT !.status = "InsufficientLotQuantity"]
              ELSE [status |-> sold.status,
                    lots |-> sold.lots,
                    res |-> Append(acc.res,
                              Posting(LotAccount(accounts.base_account, k[2], lot.date),
                                      Amount(map_options_commodity_symbol(k[2]),
                                             Dec(change)),
                                      lot_price)),
                    long_term_gain_loss |->
                        IF long THEN DAdd(acc.long_term_gain_loss, gain)
                        ELSE acc.long_term_gain_loss,
                    short_term_gain_loss |->
                        IF long THEN acc.short_term_gain_loss
                        ELSE DAdd(acc.short_term_gain_loss, gain)]

\* the for loop of _trade_to_close_postings from its i-th pair: an exception
\* ends it, and each pass works on the values the pass before it left
RECURSIVE TradeToCloseLoop(_, _, _, _, _, _, _, _, _)
TradeToCloseLoop(acc, i, k, date, unit_price, changes, refs, average, e) ==
    IF i > Min(Len(changes), Len(refs)) \/ acc.status # "ok" THEN acc
    ELSE CHOOSE out \in
           {TradeToCloseLoop(next, i + 1, k, date, unit_price, changes, refs, average, e) :
              next \in {TradeToCloseStep(acc, i, k, date, unit_price, changes, refs,
                                         average, e)}} : TRUE

GainPostingsAlways(long_term_gain_loss, short_term_gain_loss) ==
    <<Posting(PlainAccount(accounts.long_term_account),
              dollar_amount(long_term_gain_loss), NoPrice),
      Posting(PlainAccount(accounts.short_term_account),
              dollar_amount(short_term_gain_loss), NoPrice)>>

GainPostingsShortFirst(long_term_gain_loss, short_term_gain_loss) ==
    (IF short_term_gain_loss # DZero
     THEN <<Posting(PlainAccount(accounts.short_term_account),
                    dollar_amount(short_term_gain_loss), NoPrice)>>
     ELSE <<>>)
    \o
    (IF long_term_gain_loss # DZero
     THEN <<Posting(PlainAccount(accounts.long_term_account),
                    dollar_amount(long_term_gain_loss), NoPrice)>>
     ELSE <<>>)

\* the two trailing ifs of _trade_to_close_postings
GainPostings(long_term_gain_loss, short_term_gain_loss) ==
    (IF long_term_gain_loss # DZero
     THEN <<Posting(PlainAccount(accounts.long_term_account),
                    dollar_amount(long_term_gain_loss), NoPrice)>>
     ELSE <<>>)
    \o
    (IF short_term_gain_loss # DZero
     THEN <<Posting(PlainAccount(accounts.short_term_account),
                    dollar_amount(short_term_gain_loss), NoPrice)>>
     ELSE <<>>)

\* _trade_to_close_postings: [status, lots, res, long_term_gain_loss, short_term_gain_loss]
trade_to_close_postings(ls, k, date, unit_price, changes, refs, average, e) ==
    LET acc == TradeToCloseLoop(
                 [status |-> "ok", lots |-> ls, res |-> <<>>,
                  long_term_gain_loss |-> DZero, short_term_gain_loss |-> DZero],
                 1, k, date, unit_price, changes, refs, average, e)
    IN  IF acc.status = "ok"
        THEN [acc EXCEPT !.res = @ \o GainPostings(acc.long_term_gain_loss,
                                                   acc.short_term_gain_loss)]
        ELSE acc

(* --------------------------------------------------------- trade_lots *)
RECURSIVE SumSeq(_)
SumSeq(s) == IF s = <<>> THEN 0 ELSE Head(s) + SumSeq(Tail(s))

RECURSIVE DSumSeq(_)
DSumSeq(s) == IF s = <<>> THEN DZero ELSE DAdd(Head(s), DSumSeq(Tail(s)))

Quantities(a) == [i \in 1..Len(a) |-> a[i].quantity]

\* the while loop of the FIFO branch, i counted from 0 as in the source;
\* `continue` on a zero lot leaves i unchanged: the loop never ends (hang)
RECURSIVE FifoWalk(_, _, _, _, _, _)
FifoWalk(a, i, remainder, change_in_quantity, used_changes, used_lots) ==
    IF remainder * change_in_quantity > 0 /\ i < Len(a)
    THEN IF a[i + 1].quantity = 0
         THEN [hang |-> TRUE, used_changes |-> used_changes, used_lots |-> used_lots]
         ELSE FifoWalk(a, i + 1, remainder + a[i + 1].quantity, change_in_quantity,
                       Append(used_changes,
                              IF Abs(remainder) > Abs(a[i + 1].quantity)
                              THEN -a[i + 1].quantity
                              ELSE remainder),
                       Append(used_lots, i + 1))
    ELSE [hang |-> FALSE, used_changes |-> used_changes, used_lots |-> used_lots]

\* average_unit_cost of the FIFO branch (total_quantity is not zero)
AverageUnitCost(a) ==
    LET total_quantity == Dec(SumSeq(Quantities(a)))
    IN  DSumSeq([i \in 1..Len(a) |->
                   DDiv(DMul(Dec(a[i].quantity), a[i].price.value), total_quantity)])

TradeResult(status, ls, kind, postings, used_changes, used_lots, unit_price, long, short) ==
    [status |-> status, lots |-> ls, kind |-> kind, postings |-> postings,
     used_changes |-> used_changes, used_lots |-> used_lots,
     unit_price |-> unit_price,
     long_term_gain_loss |-> long, short_term_gain_loss |-> short]

CashPosting(proceeds_or_costs) ==
    Posting(CashAccount(accounts.base_account),
            dollar_amount(Dec(proceeds_or_costs)), NoPrice)

OpeningTradeAbsQuantity(ls, k, date, change_in_quantity, proceeds_or_costs, unit_price) ==
    LET price == Price("UNIT", unit_price)
    IN  TradeResult("ok",
          [ls EXCEPT ![k] = Insort(@, CommodityLot(date, Abs(change_in_quantity), price))],
          "open",
          <<CashPosting(proceeds_or_costs),
            Posting(LotAccount(accounts.base_account, k[2], date),
                    Amount(map_options_commodity_symbol(k[2]), Dec(change_in_quantity)),
                    price)>>,
          <<>>, <<>>, unit_price, DZero, DZero)

\* the opening branch of trade_lots
OpeningTrade(ls, k, date, change_in_quantity, proceeds_or_costs, unit_price) ==
    LET price == Price("UNIT", unit_price)
    IN  TradeResult("ok",
          [ls EXCEPT ![k] = Insort(@, CommodityLot(date, change_in_quantity, price))],
          "open",
          <<CashPosting(proceeds_or_costs),
            Posting(LotAccount(accounts.base_account, k[2], date),
                    Amount(map_options_commodity_symbol(k[2]), Dec(change_in_quantity)),
                    price)>>,
          <<>>, <<>>, unit_price, DZero, DZero)

\* the closing branches of trade_lots once the changes and lots are chosen
ClosingTrade(ls, k, date, proceeds_or_costs, unit_price, changes, refs, average, e) ==
    LET r == trade_to_close_postings(ls, k, date, unit_price, changes, refs, average, e)
    IN  TradeResult(r.status, r.lots, "close",
          IF r.status = "ok" THEN <<CashPosting(proceeds_or_costs)>> \o r.res ELSE <<>>,
          changes, refs, unit_price, r.long_term_gain_loss, r.short_term_gain_loss)

\* trade_lots with change_in_quantity a Decimal
TradeLotsAggregate(ls0, k, date, change_in_quantity, proceeds_or_costs, use_average_cost, e) ==
    LET ls == UpdateLots(ls0, k, e)
        a == ls[k]
    IN  IF change_in_quantity = 0
        THEN TradeResult("DivisionByZero", ls, "none", <<>>, <<>>, <<>>, DZero, DZero, DZero)
        ELSE
          LET unit_price == DAbs(DDiv(Dec(proceeds_or_costs), Dec(change_in_quantity)))
          IN  IF a = <<>> \/ a[1].quantity * change_in_quantity >= 0
              THEN OpeningTrade(ls, k, date, change_in_quantity, proceeds_or_costs, unit_price)
              ELSE
                CHOOSE out \in
                  {IF w.hang
                   THEN TradeResult("hang", ls, "close", <<>>, w.used_changes,
                                    w.used_lots, unit_price, DZero, DZero)
                   ELSE IF use_average_cost /\ SumSeq(Quantities(a)) = 0
                   THEN TradeResult("DivisionByZero", ls, "close", <<>>, w.used_changes,
                                    w.used_lots, unit_price, DZero, DZero)
                   ELSE ClosingTrade(ls, k, date, proceeds_or_costs, unit_price,
                                     w.used_changes, w.used_lots,
                                     IF use_average_cost
                                     THEN [given |-> TRUE, value |-> AverageUnitCost(a)]
                                     ELSE NoAverage,
                                     e) :
                     w \in {FifoWalk(a, 0, change_in_quantity, change_in_quantity,
                                     <<>>, <<>>)}} : TRUE

\* trade_lots with change_in_quantity a list of (quantity, lot date) pairs
TradeLotsSpecific(ls0, k, date, pairs, proceeds_or_costs, use_average_cost, e) ==
    LET total_quantity == SumSeq([i \in 1..Len(pairs) |-> pairs[i][1]])
    IN  IF total_quantity = 0
        THEN TradeResult("DivisionByZero", ls0, "none", <<>>, <<>>, <<>>, DZero, DZero, DZero)
        ELSE
          LET unit_price == DAbs(DDiv(Dec(proceeds_or_costs), Dec(total_quantity)))
              ls == UpdateLots(ls0, k, e)
          IN  ClosingTrade(ls, k, date, proceeds_or_costs, unit_price,
                           [i \in 1..Len(pairs) |-> pairs[i][1]],
                           [i \in 1..Len(pairs) |-> GetLotIndex(ls[k], pairs[i][2])],
                           NoAverage, e)

(* -------------------------------------------------------- SplitParser *)
trade_fees_account == "expenses:broker:fees"

\* None for a quantity of the cache that is not known yet
NoQuantity == <<>>
NoAmount == Amount(<<>>, DZero)

CommoditySplitAction(date, commodity, quantity, is_reverse) ==
    [date |-> date, commodity |-> commodity, quantity |-> quantity,
     is_reverse |-> is_reverse]

\* record.quantity * total_quantity <= 0: the "sell" half of the split
IsSellHalf(quantity, a) == quantity * SumSeq(Quantities(a)) <= 0

\* the two postings of every lot, in the order of the list
SplitPostings(a, commodity, account, ratio) ==
    [j \in 1..(2 * Len(a)) |->
        LET lot == a[(j + 1) \div 2]
            lot_account == LotAccount(account, commodity, lot.date)
        IN  IF j % 2 = 1
            THEN Posting(lot_account, Amount(commodity, Dec(-lot.quantity)), lot.price)
            ELSE Posting(lot_account,
                         Amount(commodity, DDiv(Dec(lot.quantity), ratio)),
                         [lot.price EXCEPT !.value = DMul(@, ratio)])]

SplitResult(status, ls, new_cache, ratio, returned) ==
    [status |-> status, lots |-> ls, cache |-> new_cache, ratio |-> ratio,
     returned |-> returned]

BalanceTransactionAlways(transaction, account, could_not_balance) ==
    [transaction EXCEPT !.postings =
        Append(@, Posting(PlainAccount(account), NoAmount, NoPrice))]

\* balance_transaction; could_not_balance is what hledger print reports
balance_transaction(transaction, account, could_not_balance) ==
    IF could_not_balance
    THEN [transaction EXCEPT !.postings =
            Append(@, Posting(PlainAccount(account), NoAmount, NoPrice))]
    ELSE transaction

SplitSecondHalfClearing(ls, cache0, record, account, fees_account, could_not_balance) ==
    LET c == record.commodity
        a == ls[cache0[c].key]
        entry == IF IsSellHalf(record.quantity, a)
                 THEN [cache0[c] EXCEPT !.sell = <<record.quantity>>]
                 ELSE [cache0[c] EXCEPT !.buy = <<record.quantity>>]
        cache1 == [cache0 EXCEPT ![c] = entry]
    IN  IF entry.sell = NoQuantity \/ entry.buy = NoQuantity
        THEN SplitResult("TypeError", ls, cache1, DZero, <<>>)
        ELSE IF entry.buy[1] = 0
        THEN SplitResult("DivisionByZero", ls, cache1, DZero, <<>>)
        ELSE
          LET ratio == DDiv(Dec(-entry.sell[1]), Dec(entry.buy[1]))
          IN  IF ratio = DZero /\ a # <<>>
              THEN SplitResult(IF a[1].quantity = 0 THEN "InvalidOperation"
                               ELSE "DivisionByZero", ls, cache1, ratio, <<>>)
              ELSE SplitResult("ok", ls, [x \in DOMAIN cache0 \ {c} |-> cache0[x]], ratio,
                     <<balance_transaction(
                         [date |-> record.date,
                          description |-> <<IF record.is_reverse THEN "Reverse split"
                                            ELSE "Split", c>>,
                          postings |-> SplitPostings(a, c, account, ratio),
                          tags |-> <<<<"split", "">>>>],
                         fees_account, could_not_balance)>>)

\* SplitParser.__call__ when record.commodity is in the cache; the cached list
\* is the manager's own list of the key, so it is read from ls
SplitSecondHalf(ls, cache0, record, account, fees_account, could_not_balance) ==
    LET c == record.commodity
        a == ls[cache0[c].key]
        entry == IF IsSellHalf(record.quantity, a)
                 THEN [cache0[c] EXCEPT !.sell = <<record.quantity>>]
                 ELSE [cache0[c] EXCEPT !.buy = <<record.quantity>>]
        cache1 == [cache0 EXCEPT ![c] = entry]
    IN  IF entry.sell = NoQuantity \/ entry.buy = NoQuantity
        THEN SplitResult("TypeError", ls, cache1, DZero, <<>>)
        ELSE IF entry.buy[1] = 0
        THEN SplitResult("DivisionByZero", ls, cache1, DZero, <<>>)
        ELSE
          LET ratio == DDiv(Dec(-entry.sell[1]), Dec(entry.buy[1]))
          IN  IF ratio = DZero /\ a # <<>>
              THEN SplitResult(IF a[1].quantity = 0 THEN "InvalidOperation"
                               ELSE "DivisionByZero", ls, cache1, ratio, <<>>)
              ELSE SplitResult("ok", ls, cache1, ratio,
                     <<balance_transaction(
                         [date |-> record.date,
                          description |-> <<IF record.is_reverse THEN "Reverse split"
                                            ELSE "Split", c>>,
                          postings |-> SplitPostings(a, c, account, ratio),
                          tags |-> <<<<"split", "">>>>],
                         fees_account, could_not_balance)>>)

SplitFirstHalfAsSell(ls0, cache0, record, account, e) ==
    LET k == <<account, record.commodity>>
    IN  SplitResult("ok", UpdateLots(ls0, k, e),
          [x \in DOMAIN cache0 \cup {record.commodity} |->
              IF x = record.commodity
              THEN [key |-> k, sell |-> <<record.quantity>>, buy |-> NoQuantity]
              ELSE cache0[x]],
          DZero, <<>>)

\* SplitParser.__call__ when record.commodity is not in the cache
SplitFirstHalf(ls0, cache0, record, account, e) ==
    LET k == <<account, record.commodity>>
        ls == UpdateLots(ls0, k, e)
        sell == IsSellHalf(record.quantity, ls[k])
        entry == [key |-> k,
                  sell |-> IF sell THEN <<record.quantity>> ELSE NoQuantity,
                  buy |-> IF sell THEN NoQuantity ELSE <<record.quantity>>]
    IN  SplitResult("ok", ls,
          [x \in DOMAIN cache0 \cup {record.commodity} |->
              IF x = record.commodity THEN entry ELSE cache0[x]],
          DZero, <<>>)

\* utils.SplitParser.__call__
SplitParserCall(ls, cache0, manager, record, account, fees_account, could_not_balance, e) ==
    IF ~manager
    THEN SplitResult("NotInitialized", ls, cache0, DZero, <<>>)
    ELSE IF record.commodity \in DOMAIN cache0
    THEN SplitSecondHalf(ls, cache0, record, account, fees_account,
                         could_not_balance)
    ELSE SplitFirstHalf(ls, cache0, record, account, e)

FidelityCallManagerOnly(ls, cache0, manager, own_account, record, account, fees_account, could_not_balance, e) ==
    IF ~manager
    THEN SplitResult("NotInitialized", ls, cache0, DZero, <<>>)
    ELSE IF record.commodity \in DOMAIN cache0
    THEN SplitSecondHalf(ls, cache0, record, account, fees_account,
                         could_not_balance)
    ELSE SplitFirstHalf(ls, cache0, record, account, e)

\* fidelity._SplitParser.__call__: the lots are read under self._base_account,
\* the postings are written under config.base_account
FidelitySplitParserCall(ls, cache0, manager, own_account, record, account, fees_account, could_not_balance, e) ==
    IF ~manager \/ own_account = ""
    THEN SplitResult("NotInitialized", ls, cache0, DZero, <<>>)
    ELSE IF record.commodity \in DOMAIN cache0
    THEN SplitSecondHalf(ls, cache0, record, account, fees_account,
                         could_not_balance)
    ELSE SplitFirstHalf(ls, cache0, record, own_account, e)

(* ------------------------------------------------------------- inputs *)
TradeDates == {397}
AddDates == {33, 396}
Deltas == {-8, -3, 0, 8}
ProceedsOrCosts == {-600, 960}
LotDates == {0, 33}
Pairs == {<<-3, 0>>, <<5, 0>>, <<5, 33>>}
SellQuantities == {-3, 3, 8}
AddQuantities == {5}
AddPrices == {Price("UNIT", Dec(100))}
LookupDates == LotDates \cup {397}
EndDates == {NoDate, 0, 152}

PairLists == [{1} -> Pairs] \cup [{1, 2} -> Pairs]

\* inputs of the store-only runs
StoreEndDates == {NoDate, 0}
StoreLookupDates == {0}
StoreAddDates == {33}
StoreSellDates == {0, 33}
StoreSellQuantities == {3}

SplitDates == {397}
SplitQuantities == {-20, -10, 10, 20}
SessionCommodities == {AAA}

(* -------------------------------------------------------------- state *)
\* what get_lots would return for every key
View(ls, e) ==
    [k \in Keys |-> IF k \in DOMAIN ls THEN ls[k] ELSE get_commodity_lots(k, e)]

NoKey == <<"", <<>>>>

Call(op, k, date, form, delta, pairs, proceeds, avg) ==
    [op |-> op, key |-> k, date |-> date, form |-> form, delta |-> delta,
     pairs |-> pairs, proceeds |-> proceeds, avg |-> avg]

\* the record of the latest call: its arguments, the lots before it and its outcome
Last(call, pre, status, found, r) ==
    [op |-> call.op, key |-> call.key, date |-> call.date, form |-> call.form,
     delta |-> call.delta, pairs |-> call.pairs, proceeds |-> call.proceeds,
     avg |-> call.avg, pre |-> pre, status |-> status, found |-> found,
     kind |-> r.kind, used_changes |-> r.used_changes, used_lots |-> r.used_lots,
     unit_price |-> r.unit_price,
     long_term_gain_loss |-> r.long_term_gain_loss,
     short_term_gain_loss |-> r.short_term_gain_loss,
     transaction |-> IF r.status = "ok" /\ call.op = "trade_lots"
                     THEN Transaction(call.date, "", r.postings)
                     ELSE NoTransaction]

NoTrade == TradeResult("none", <<>>, "none", <<>>, <<>>, <<>>, DZero, DZero, DZero)

Running == nops < MaxOps /\ last.status # "hang"

NoSplit == SplitResult("none", <<>>, <<>>, DZero, <<>>)

\* the record of the latest SplitParser call
SplitLast(r, ls0, cache0, could_not_balance) ==
    [status |-> r.status, ratio |-> r.ratio, returned |-> r.returned,
     lots |-> ls0, cache |-> cache0, could_not_balance |-> could_not_balance]

Init ==
    /\ lots = <<>>
    /\ end_date = NoDate
    /\ nops = 0
    /\ last = Last(Call("init", NoKey, NoDate, "none", 0, <<>>, 0, FALSE),
                   View(<<>>, NoDate), "ok", 0, NoTrade)
    /\ parser = "utils"
    /\ lots_manager = TRUE
    /\ base_account = ""
    /\ cache = <<>>
    /\ split_last = SplitLast(NoSplit, <<>>, <<>>, FALSE)
    /\ legs = <<>>
    /\ symbol_call = NoSymbolCall

\* a session whose split processor is constructed without arguments
SessionInit ==
    /\ lots = <<>>
    /\ end_date = NoDate
    /\ nops = 0
    /\ last = Last(Call("init", NoKey, NoDate, "none", 0, <<>>, 0, FALSE),
                   View(<<>>, NoDate), "ok", 0, NoTrade)
    /\ parser \in {"utils", "fidelity"}
    /\ lots_manager = FALSE
    /\ base_account = ""
    /\ cache = <<>>
    /\ split_last = SplitLast(NoSplit, <<>>, <<>>, FALSE)
    /\ legs = <<>>
    /\ symbol_call = NoSymbolCall

SetEndDateClearing(new_end_date) ==
    /\ end_date' = new_end_date
    /\ lots' = <<>>
    /\ last' = Last(Call("end_date", NoKey, new_end_date, "none", 0, <<>>, 0, FALSE),
                    View(lots, end_date), "ok", 0, NoTrade)
    /\ nops' = nops + 1
    /\ UNCHANGED <<split_vars, symbol_call>>

\* CommodityLotsManager.end_date setter
SetEndDateCall(new_end_date) ==
    /\ end_date' = new_end_date
    /\ last' = Last(Call("end_date", NoKey, new_end_date, "none", 0, <<>>, 0, FALSE),
                    View(lots, end_date), "ok", 0, NoTrade)
    /\ nops' = nops + 1
    /\ UNCHANGED <<lots, split_vars, symbol_call>>

SetEndDate(new_end_date) == Running /\ SetEndDateCall(new_end_date)

\* CommodityLotsManager.get_lots
GetLotsCall(k) ==
    /\ lots' = UpdateLots(lots, k, end_date)
    /\ last' = Last(Call("get_lots", k, NoDate, "none", 0, <<>>, 0, FALSE),
                    View(lots, end_date), "ok", 0, NoTrade)
    /\ nops' = nops + 1
    /\ UNCHANGED <<end_date, split_vars, symbol_call>>

GetLots(k) == Running /\ GetLotsCall(k)

\* CommodityLotsManager.get_lot
GetLotCall(k, lot_date) ==
    /\ lots' = UpdateLots(lots, k, end_date)
    /\ last' = Last(Call("get_lot", k, lot_date, "none", 0, <<>>, 0, FALSE),
                    View(lots, end_date), "ok", GetLotIndex(lots'[k], lot_date), NoTrade)
    /\ nops' = nops + 1
    /\ UNCHANGED <<end_date, split_vars, symbol_call>>

GetLot(k, lot_date) == Running /\ GetLotCall(k, lot_date)

\* CommodityLotsManager.add_lot
AddLotCall(k, date, quantity, price) ==
    /\ Len(View(lots, end_date)[k]) < MaxLots
    /\ lots' = [UpdateLots(lots, k, end_date) EXCEPT
                  ![k] = Insort(@, CommodityLot(date, quantity, price))]
    /\ last' = Last(Call("add_lot", k, date, "none", quantity, <<>>, 0, FALSE),
                    View(lots, end_date), "ok", 0, NoTrade)
    /\ nops' = nops + 1
    /\ UNCHANGED <<end_date, split_vars, symbol_call>>

AddLot(k, date, quantity, price) == Running /\ AddLotCall(k, date, quantity, price)

\* CommodityLotsManager.sell_from_lot called on its own
SellFromLotCall(k, date, quantity) ==
    /\ \E r \in {sell_from_lot(lots, k, date, quantity, end_date)} :
           /\ lots' = r.lots
           /\ last' = Last(Call("sell_from_lot", k, date, "none", quantity, <<>>, 0, FALSE),
                           View(lots, end_date), r.status, 0, NoTrade)
    /\ nops' = nops + 1
    /\ UNCHANGED <<end_date, split_vars, symbol_call>>

SellFromLot(k, date, quantity) == Running /\ SellFromLotCall(k, date, quantity)

\* trade_lots(..., change_in_quantity: Decimal, ...)
TradeLotsDecimal(k, date, change_in_quantity, proceeds_or_costs, use_average_cost) ==
    /\ Running
    /\ \E r \in {TradeLotsAggregate(lots, k, date, change_in_quantity,
                                      proceeds_or_costs, use_average_cost, end_date)} :
           /\ Len(r.lots[k]) <= MaxLots
           /\ lots' = r.lots
           /\ last' = Last(Call("trade_lots", k, date, "aggregate", change_in_quantity,
                                <<>>, proceeds_or_costs, use_average_cost),
                           View(lots, end_date), r.status, 0, r)
    /\ nops' = nops + 1
    /\ UNCHANGED <<end_date, split_vars, symbol_call>>

\* trade_lots(..., change_in_quantity: list of (Decimal, datetime), ...)
TradeLotsList(k, date, pairs, proceeds_or_costs, use_average_cost) ==
    /\ Running
    /\ \E r \in {TradeLotsSpecific(lots, k, date, pairs, proceeds_or_costs,
                                     use_average_cost, end_date)} :
           /\ lots' = r.lots
           /\ last' = Last(Call("trade_lots", k, date, "list", 0, pairs,
                                proceeds_or_costs, use_average_cost),
                           View(lots, end_date), r.status, 0, r)
    /\ nops' = nops + 1
    /\ UNCHANGED <<end_date, split_vars, symbol_call>>

\* the lots_manager setter of the split processor
SetLotsManager ==
    /\ ~lots_manager
    /\ lots_manager' = TRUE
    /\ last' = Last(Call("lots_manager", NoKey, NoDate, "none", 0, <<>>, 0, FALSE),
                    View(lots, end_date), "ok", 0, NoTrade)
    /\ UNCHANGED <<lots, end_date, nops, parser, base_account, cache,
                   split_last, legs, symbol_call>>

\* _SplitParser.base_account setter
SetBaseAccount ==
    /\ parser = "fidelity"
    /\ base_account = ""
    /\ base_account' = BaseAccount
    /\ last' = Last(Call("base_account", NoKey, NoDate, "none", 0, <<>>, 0, FALSE),
                    View(lots, end_date), "ok", 0, NoTrade)
    /\ UNCHANGED <<lots, end_date, nops, parser, lots_manager, cache,
                   split_last, legs, symbol_call>>

\* one call of the split processor
Split(date, commodity, quantity, is_reverse, could_not_balance) ==
    \E r \in {IF parser = "fidelity"
               THEN FidelitySplitParserCall(lots, cache, lots_manager, base_account,
                      CommoditySplitAction(date, commodity, quantity, is_reverse),
                      BaseAccount, trade_fees_account, could_not_balance, end_date)
               ELSE SplitParserCall(lots, cache, lots_manager,
                      CommoditySplitAction(date, commodity, quantity, is_reverse),
                      BaseAccount, trade_fees_account, could_not_balance, end_date)} :
        /\ lots' = r.lots
        /\ cache' = r.cache
        /\ split_last' = SplitLast(r, lots, cache, could_not_balance)
        /\ legs' = IF r.status = "NotInitialized" THEN legs
                   ELSE Append(legs, [commodity |-> commodity, quantity |-> quantity,
                                      lots |-> View(lots, end_date)[<<BaseAccount, commodity>>],
                                      returned |-> r.returned # <<>>])
        /\ last' = Last(Call("split", <<BaseAccount, commodity>>, date, "none", quantity,
                             <<>>, 0, is_reverse),
                        View(lots, end_date), r.status, 0, NoTrade)
        /\ nops' = nops + 1
        /\ UNCHANGED <<end_date, parser, lots_manager, base_account, symbol_call>>

\* a split leg among the other operations
SplitLeg(date, commodity, quantity, is_reverse, could_not_balance) ==
    /\ Running
    /\ Split(date, commodity, quantity, is_reverse, could_not_balance)

\* a split leg of a session that processes split records only
SessionLeg(date, commodity, quantity, is_reverse, could_not_balance) ==
    /\ nops < MaxLegs
    /\ Split(date, commodity, quantity, is_reverse, could_not_balance)

Next ==
    \/ \E e \in EndDates : SetEndDate(e)
    \/ \E k \in Keys : GetLots(k)
    \/ \E k \in Keys, d \in LookupDates : GetLot(k, d)
    \/ \E k \in Keys, d \in AddDates, q \in AddQuantities, p \in AddPrices :
          AddLot(k, d, q, p)
    \/ \E k \in Keys, d \in LotDates, q \in SellQuantities : SellFromLot(k, d, q)
    \/ \E k \in Keys, d \in TradeDates, q \in Deltas, p \in ProceedsOrCosts,
          avg \in BOOLEAN : TradeLotsDecimal(k, d, q, p, avg)
    \/ \E k \in Keys, d \in TradeDates, ps \in PairLists, p \in ProceedsOrCosts,
          avg \in BOOLEAN : TradeLotsList(k, d, ps, p, avg)
    \/ \E d \in SplitDates, c \in Commodities, q \in SplitQuantities,
          rev \in BOOLEAN, ncb \in BOOLEAN : SplitLeg(d, c, q, rev, ncb)

Spec == Init /\ [][Next]_vars

\* a session of split records only
SessionNext ==
    \/ SetLotsManager
    \/ SetBaseAccount
    \/ \E k \in Keys : GetLots(k)
    \/ \E d \in SplitDates, c \in SessionCommodities, q \in SplitQuantities,
          rev \in BOOLEAN, ncb \in BOOLEAN : SessionLeg(d, c, q, rev, ncb)

SessionSpec == SessionInit /\ [][SessionNext]_vars

\* the lot store on its own: CommodityLotsManager driven through its end_date
\* setter, get_lots, get_lot, add_lot and sell_from_lot
StoreRunning == nops < MaxAccesses

StoreSetEndDate(new_end_date) == StoreRunning /\ SetEndDateCall(new_end_date)
StoreGetLots(k) == StoreRunning /\ GetLotsCall(k)
StoreGetLot(k, lot_date) == StoreRunning /\ GetLotCall(k, lot_date)
StoreAddLot(k, date, quantity, price) == StoreRunning /\ AddLotCall(k, date, quantity, price)
StoreSellFromLot(k, date, quantity) == StoreRunning /\ SellFromLotCall(k, date, quantity)

StoreNext ==
    \/ \E e \in StoreEndDates : StoreSetEndDate(e)
    \/ \E k \in Keys : StoreGetLots(k)
    \/ \E k \in Keys, d \in StoreLookupDates : StoreGetLot(k, d)
    \/ \E k \in Keys, d \in StoreAddDates, q \in AddQuantities, p \in AddPrices :
          StoreAddLot(k, d, q, p)
    \/ \E k \in Keys, d \in StoreSellDates, q \in StoreSellQuantities :
          StoreSellFromLot(k, d, q)

StoreSpec == Init /\ [][StoreNext]_vars

\* a split session with lot-store operations between the legs
BetweenAddLot(k, date, quantity, price) ==
    nops < MaxLegs /\ AddLotCall(k, date, quantity, price)
BetweenSellFromLot(k, date, quantity) ==
    nops < MaxLegs /\ SellFromLotCall(k, date, quantity)

InterleavedNext ==
    \/ \E d \in SplitDates, c \in SessionCommodities, q \in SplitQuantities :
          SessionLeg(d, c, q, FALSE, FALSE)
    \/ \E c \in SessionCommodities, d \in StoreAddDates, q \in AddQuantities,
          p \in AddPrices : BetweenAddLot(<<BaseAccount, c>>, d, q, p)
    \/ \E c \in SessionCommodities, d \in StoreSellDates, q \in StoreSellQuantities :
          BetweenSellFromLot(<<BaseAccount, c>>, d, q)

InterleavedSpec == Init /\ [][InterleavedNext]_vars

\* trade_lots called with aggregate deltas only
AggregateNext ==
    \E k \in Keys, d \in TradeDates, q \in Deltas, p \in ProceedsOrCosts,
       avg \in BOOLEAN : TradeLotsDecimal(k, d, q, p, avg)

AggregateSpec == Init /\ [][AggregateNext]_vars

\* map_options_commodity_symbol on its own
SymbolInit ==
    /\ lots = <<>>
    /\ end_date = NoDate
    /\ nops = 0
    /\ last = Last(Call("init", NoKey, NoDate, "none", 0, <<>>, 0, FALSE),
                   View(<<>>, NoDate), "ok", 0, NoTrade)
    /\ parser = "utils"
    /\ lots_manager = TRUE
    /\ base_account = ""
    /\ cache = <<>>
    /\ split_last = SplitLast(NoSplit, <<>>, <<>>, FALSE)
    /\ legs = <<>>
    /\ symbol_call \in {SymbolCall(s, FALSE, <<>>) : s \in Symbols}

MapOptionsCommoditySymbol ==
    /\ ~symbol_call.returned
    /\ symbol_call' = SymbolCall(symbol_call.with_numbers, TRUE,
                                 map_options_commodity_symbol(symbol_call.with_numbers))
    /\ UNCHANGED <<lots, end_date, last, nops, split_vars>>

SymbolNext == MapOptionsCommoditySymbol

SymbolSpec == SymbolInit /\ [][SymbolNext]_vars

(* ------------------------------------------------- vocabulary of the claims *)
Raised ==
    last.status \in {"LotNotFound", "InsufficientLotQuantity", "AttributeError",
                     "DivisionByZero"}

IsTrade == last.op = "trade_lots"
IsAggregate == IsTrade /\ last.form = "aggregate"
IsList == IsTrade /\ last.form = "list"
ClosedOk == IsTrade /\ last.kind = "close" /\ last.status = "ok"

LastKeyPre == last.pre[last.key]
LastKeyPost == View(lots, end_date)[last.key]

AbsQuantities(a) == [i \in 1..Len(a) |-> Abs(a[i].quantity)]
NetPosition(a) == SumSeq(Quantities(a))

IsLotLeg(p) == p.account.date # NoDate
LotLegs == SelectSeq(last.transaction.postings, IsLotLeg)
GainLegs == SubSeq(last.transaction.postings, 2 + Len(LotLegs),
                   Len(last.transaction.postings))

\* the lot a used_lots entry refers to, as it was before the call
UsedLot(i) == LastKeyPre[last.used_lots[i]]
\* the per-unit cost stated on the i-th lot leg
PostedCost(i) == LotLegs[i].price.value
\* consumed_quantity * (unit_price - lot cost) of the i-th consumed lot
Contribution(i) ==
    DMul(Dec(last.used_changes[i]), DSub(last.unit_price, PostedCost(i)))

BucketTotal(indices) ==
    DSumSeq([i \in 1..Len(last.used_changes) |->
               IF i \in indices THEN Contribution(i) ELSE DZero])

UsedIndices == 1..Len(last.used_changes)
HeldLongTerm == {i \in UsedIndices : last.date - UsedLot(i).date >= 365}

\* sum(quantity * unit cost) / sum(quantity) over the lots before the call
WeightedAverageCost(a) ==
    DDiv(DSumSeq([i \in 1..Len(a) |-> DMul(Dec(a[i].quantity), UnitPrice(a[i]).value)]),
         Dec(NetPosition(a)))

(* ------------------------------------------------------------------ C1 *)
\* C1: an aggregate-delta call handled as a closing trade that returns normally
\* consumes exactly the requested delta: the lot-leg amounts sum to delta and the
\* store's net position of the key moves by delta.
C1_ConsumedSumsToDelta ==
    (IsAggregate /\ ClosedOk) =>
        /\ SumSeq(last.used_changes) = last.delta
        /\ DSumSeq([i \in 1..Len(LotLegs) |-> LotLegs[i].amount.value]) = Dec(last.delta)
        /\ NetPosition(LastKeyPost) - NetPosition(LastKeyPre) = last.delta

(* ------------------------------------------------------------------ C2 *)
NonZeroLots(a) == SelectSeq([i \in 1..Len(a) |-> i], LAMBDA i : a[i].quantity # 0)

\* C2: an aggregate-delta call whose delta reverses the open position is a FIFO
\* close: it consumes the lots of non-zero quantity in ascending date order from
\* the earliest one, draining each lot fully before touching the next.
C2_FifoFromEarliestOpenLot ==
    (IsAggregate /\ last.status = "ok"
       /\ NetPosition(LastKeyPre) * last.delta < 0) =>
        /\ last.kind = "close"
        /\ last.used_lots # <<>>
        /\ Len(last.used_lots) <= Len(NonZeroLots(LastKeyPre))
        /\ last.used_lots = SubSeq(NonZeroLots(LastKeyPre), 1, Len(last.used_lots))
        /\ \A i \in 1..(Len(last.used_lots) - 1) :
              last.used_changes[i] = -UsedLot(i).quantity

(* ------------------------------------------------------------------ C3 *)
\* C3: an aggregate-delta closing trade that requests more than the total
\* remaining magnitude of the key's lots fails with the insufficient-lots error.
C3_OverdrawnCloseFails ==
    (IsAggregate /\ last.kind = "close"
       /\ Abs(last.delta) > SumSeq(AbsQuantities(LastKeyPre))) =>
        last.status = "InsufficientLotQuantity"

(* ------------------------------------------------------------------ C4 *)
\* C4: a closing trade_lots call that raises, in the FIFO form or in the
\* specific-lot form, leaves every lot of the store as it was before the call.
C4_FailedCloseLeavesLotsUnchanged ==
    (IsTrade /\ (last.kind = "close" \/ last.form = "list") /\ Raised) =>
        View(lots, end_date) = last.pre

(* ------------------------------------------------------------------ C5 *)
FirstAt(a, date) ==
    LET named == {i \in 1..Len(a) : a[i].date = date}
    IN  IF named = {} THEN 0 ELSE CHOOSE i \in named : \A j \in named : i <= j

\* C5: sell_from_lot fails with lot-not-found when no lot has exactly the date,
\* with insufficient-quantity when |quantity| > |lot.quantity|, changing no lot
\* in either case; otherwise the named lot's quantity becomes
\* lot.quantity - quantity and no other lot changes.
C5_SellFromLot ==
    last.op = "sell_from_lot" =>
        LET i == FirstAt(LastKeyPre, last.date)
        IN  IF i = 0
            THEN last.status = "LotNotFound" /\ View(lots, end_date) = last.pre
            ELSE IF Abs(last.delta) > Abs(LastKeyPre[i].quantity)
            THEN /\ last.status = "InsufficientLotQuantity"
                 /\ View(lots, end_date) = last.pre
            ELSE /\ last.status = "ok"
                 /\ View(lots, end_date) =
                      [last.pre EXCEPT ![last.key][i].quantity = @ - last.delta]

C5_Witness ==
    /\ last.op = "sell_from_lot"
    /\ last.status = "InsufficientLotQuantity"
    /\ last.delta = 8
    /\ FirstAt(LastKeyPre, last.date) # 0
    /\ LastKeyPre[FirstAt(LastKeyPre, last.date)].quantity = 5

(* ------------------------------------------------------------------ C6 *)
RemoveAt(a, i) == SubSeq(a, 1, i - 1) \o SubSeq(a, i + 1, Len(a))

\* C6: an aggregate-delta call (of a non-zero delta) on a key with no lots, or
\* whose first lot has the sign of delta, is an opening trade: it adds exactly one
\* lot dated at the trade date with quantity delta and unit cost
\* |proceeds| / |delta|, leaves every existing lot unchanged and returns two
\* postings, the cash posting and the lot posting under
\* base_account:commodity:date with that per-unit price.
C6_OpeningTrade ==
    (IsAggregate /\ last.delta # 0
       /\ (LastKeyPre = <<>> \/ LastKeyPre[1].quantity * last.delta > 0)) =>
        LET new == CommodityLot(last.date, last.delta,
                     Price("UNIT", Frac(Abs(last.proceeds), Abs(last.delta))))
        IN  /\ last.status = "ok"
            /\ last.kind = "open"
            /\ Len(LastKeyPost) = Len(LastKeyPre) + 1
            /\ \E i \in 1..Len(LastKeyPost) :
                  LastKeyPost[i] = new /\ RemoveAt(LastKeyPost, i) = LastKeyPre
            /\ \A k \in Keys \ {last.key} : View(lots, end_date)[k] = last.pre[k]
            /\ last.transaction.postings =
                 <<Posting([path |-> <<BaseAccount, "cash">>, commodity |-> <<>>,
                            date |-> NoDate],
                           Amount(<<"$">>, Dec(last.proceeds)), NoPrice),
                   Posting([path |-> <<BaseAccount>>, commodity |-> Lower(last.key[2]),
                            date |-> last.date],
                           Amount(map_options_commodity_symbol(last.key[2]),
                                  Dec(last.delta)),
                           new.price)>>

C6_Witness ==
    /\ IsAggregate /\ last.kind = "open" /\ last.status = "ok"
    /\ LastKeyPre # <<>>
    /\ LastKeyPre[1].quantity < 0 /\ last.delta < 0
    /\ Len(LastKeyPost) = Len(LastKeyPre) + 1

(* ------------------------------------------------------------------ C7 *)
\* the pairs of the call that name the date of the i-th lot
PairsNaming(a, i) == {j \in 1..Len(last.pairs) : last.pairs[j][2] = a[i].date}
AbsDeltas(js) ==
    SumSeq([j \in 1..Len(last.pairs) |-> IF j \in js THEN Abs(last.pairs[j][1]) ELSE 0])

\* C7: in the specific-lot form each (delta, lot_date) pair reduces the magnitude
\* of exactly the lot of that date by |delta|, the lot legs appear in the order of
\* the pairs, no lot is created, and a pair naming a date without a lot makes the
\* call fail with the lot-not-found error.
C7_SpecificLotClose ==
    IsList =>
        IF \E j \in 1..Len(last.pairs) : FirstAt(LastKeyPre, last.pairs[j][2]) = 0
        THEN last.status = "LotNotFound"
        ELSE last.status = "ok" =>
               /\ Len(LastKeyPost) = Len(LastKeyPre)
               /\ \A i \in 1..Len(LastKeyPre) :
                     Abs(LastKeyPost[i].quantity) =
                       Abs(LastKeyPre[i].quantity)
                         - (IF FirstAt(LastKeyPre, LastKeyPre[i].date) = i
                            THEN AbsDeltas(PairsNaming(LastKeyPre, i)) ELSE 0)
               /\ Len(LotLegs) = Len(last.pairs)
               /\ \A j \in 1..Len(last.pairs) :
                     /\ LotLegs[j].account.date = last.pairs[j][2]
                     /\ LotLegs[j].amount.value = Dec(last.pairs[j][1])

(* ------------------------------------------------------------------ C8 *)
GainPosting(account, total) ==
    IF total = DZero THEN <<>>
    ELSE <<Posting([path |-> <<account>>, commodity |-> <<>>, date |-> NoDate],
                   Amount(<<"$">>, total), NoPrice)>>

\* C8: in a closing trade every consumed (quantity, lot) pair contributes
\* quantity * (unit_price - lot cost) to exactly one of the two buckets, with
\* unit_price = |proceeds| / |total delta| and the lot cost the per-unit cost
\* stated on the lot's leg (the lot's own unit cost unless average cost was
\* requested); the bucket totals are the sums of these contributions; a gain
\* posting is emitted for a bucket exactly when its total is not zero, to the
\* bucket's account.
C8_GainBuckets ==
    ClosedOk =>
        LET total == IF last.form = "aggregate" THEN last.delta
                     ELSE SumSeq([j \in 1..Len(last.pairs) |-> last.pairs[j][1]])
        IN  /\ last.unit_price = Frac(Abs(last.proceeds), Abs(total))
            /\ Len(LotLegs) = Len(last.used_changes)
            /\ \A i \in UsedIndices :
                  /\ LotLegs[i].amount.value = Dec(last.used_changes[i])
                  /\ ~last.avg => PostedCost(i) = UnitPrice(UsedLot(i)).value
            /\ \E long \in SUBSET UsedIndices :
                  /\ last.long_term_gain_loss = BucketTotal(long)
                  /\ last.short_term_gain_loss = BucketTotal(UsedIndices \ long)
            /\ GainLegs = GainPosting(accounts.long_term_account, last.long_term_gain_loss)
                          \o GainPosting(accounts.short_term_account,
                                         last.short_term_gain_loss)

\* a two-lot close whose long-term bucket is non-zero and whose short-term
\* bucket is zero although a short-term lot was consumed
C8_Witness ==
    /\ ClosedOk
    /\ Len(last.used_changes) = 2
    /\ HeldLongTerm = {1}
    /\ last.long_term_gain_loss # DZero
    /\ last.short_term_gain_loss = DZero
    /\ Len(GainLegs) = 1

(* ------------------------------------------------------------------ C9 *)
\* C9: the gain/loss of a consumed lot goes to the long-term bucket when
\* trade date - lot date is at least 365 days and to the short-term bucket
\* otherwise: held exactly 365 days is long-term, 364 days is short-term.
C9_HoldingPeriod ==
    ClosedOk =>
        /\ last.long_term_gain_loss = BucketTotal(HeldLongTerm)
        /\ last.short_term_gain_loss = BucketTotal(UsedIndices \ HeldLongTerm)

\* one close consuming a lot held exactly 365 days and a lot held 364 days
C9_Witness ==
    /\ ClosedOk
    /\ Len(last.used_changes) = 2
    /\ last.date - UsedLot(1).date = 365
    /\ last.date - UsedLot(2).date = 364
    /\ last.long_term_gain_loss = Contribution(1)
    /\ last.short_term_gain_loss = Contribution(2)
    /\ Contribution(1) # DZero /\ Contribution(2) # DZero

(* ----------------------------------------------------------------- C10 *)
\* C10: with use_average_cost the gain/loss of a closing trade is
\* consumed quantity * (unit_price - weighted average cost of all lots of the
\* key), whether the lots are chosen by the FIFO walk or named as pairs.
C10_AverageCostGain ==
    (ClosedOk /\ last.avg /\ NetPosition(LastKeyPre) # 0) =>
        DAdd(last.long_term_gain_loss, last.short_term_gain_loss)
          = DMul(Dec(SumSeq(last.used_changes)),
                 DSub(last.unit_price, WeightedAverageCost(LastKeyPre)))

(* ----------------------------------------------------------------- C11 *)
\* lots (2020-01-01, 5 @ 100) and (2020-06-01, 5 @ 120), aggregate close of -8
\* on 2021-02-01 for proceeds 960, average cost not requested
Scenario2 ==
    /\ IsAggregate
    /\ last.key = <<BaseAccount, AAA>>
    /\ LastKeyPre = <<CommodityLot(0, 5, Price("UNIT", Dec(100))),
                      CommodityLot(152, 5, Price("UNIT", Dec(120)))>>
    /\ last.date = 397 /\ last.delta = -8 /\ last.proceeds = 960 /\ ~last.avg

Scenario2Consumes ==
    /\ last.status = "ok"
    /\ last.used_lots = <<1, 2>> /\ last.used_changes = <<-5, -3>>
    /\ Quantities(LastKeyPost) = <<0, 2>>

\* C11 as stated: the close of scenario 2 consumes 5 from the first lot and 3
\* from the second, and its transaction has a long-term gain posting of 100 and
\* no short-term gain posting.
C11_LongTermGainIs100 ==
    Scenario2 =>
        /\ Scenario2Consumes
        /\ GainLegs = GainPosting(accounts.long_term_account, Dec(100))

\* C11 amended: the close of scenario 2 consumes 5 from the first lot and 3
\* from the second, and its transaction has a long-term gain posting of -100
\* (a gain is a credit to the revenue account) and no short-term gain posting.
C11_LongTermGainIsMinus100 ==
    Scenario2 =>
        /\ Scenario2Consumes
        /\ GainLegs = GainPosting(accounts.long_term_account, Dec(-100))

C11_Witness ==
    /\ Scenario2
    /\ last.status = "ok"
    /\ Len(GainLegs) = 1
    /\ GainLegs[1].account.path = <<accounts.long_term_account>>

(* ----------------------------------------------------------------- C12 *)
\* the (lot date, quantity) of the lot legs a trade is to post, in trade order
TradedLegs ==
    IF last.kind = "open"
    THEN <<[date |-> last.date, quantity |-> last.delta]>>
    ELSE [i \in UsedIndices |->
            [date |-> UsedLot(i).date, quantity |-> last.used_changes[i]]]

\* C12: every transaction returned by trade_lots, opening or closing, starts
\* with the cash posting of the raw proceeds-or-costs argument, followed by the
\* lot legs in trade order, then the long-term gain leg if non-zero, then the
\* short-term gain leg if non-zero; its description is empty and its date is
\* the trade date.
C12_PostingOrder ==
    (IsTrade /\ last.status = "ok") =>
        LET ps == last.transaction.postings
            n == Len(TradedLegs)
        IN  /\ last.transaction.date = last.date
            /\ last.transaction.description = ""
            /\ Len(ps) >= 1 + n
            /\ ps[1] = Posting([path |-> <<BaseAccount, "cash">>, commodity |-> <<>>,
                                date |-> NoDate],
                               Amount(<<"$">>, Dec(last.proceeds)), NoPrice)
            /\ \A i \in 1..n :
                  /\ ps[1 + i].account.path = <<BaseAccount>>
                  /\ ps[1 + i].account.commodity = Lower(last.key[2])
                  /\ ps[1 + i].account.date = TradedLegs[i].date
                  /\ ps[1 + i].amount.value = Dec(TradedLegs[i].quantity)
            /\ SubSeq(ps, n + 2, Len(ps))
                 = GainPosting(accounts.long_term_account, last.long_term_gain_loss)
                   \o GainPosting(accounts.short_term_account,
                                  last.short_term_gain_loss)

\* a close of two lots that posts both gain legs
C12_Witness ==
    /\ ClosedOk
    /\ Len(last.transaction.postings) = 5
    /\ last.long_term_gain_loss # DZero
    /\ last.short_term_gain_loss # DZero
    /\ last.proceeds < 0

(* ----------------------------------------------------------------- C13 *)
IsSplit == last.op = "split" /\ last.status # "NotInitialized"
SplitCommodity == last.key[2]
\* the leg is the first one processed for its commodity
IsFirstLeg == IsSplit /\ SplitCommodity \notin DOMAIN split_last.cache
Pending == split_last.cache[SplitCommodity]
\* the leg meets a pending first leg of the other half
IsSecondLeg ==
    /\ IsSplit
    /\ SplitCommodity \in DOMAIN split_last.cache
    /\ (Pending.sell = NoQuantity) # (Pending.buy = NoQuantity)
    /\ (last.delta * NetPosition(LastKeyPre) <= 0) = (Pending.sell = NoQuantity)
PendingQuantity == IF Pending.sell = NoQuantity THEN Pending.buy[1] ELSE Pending.sell[1]
ReturnedPostings(r) == IF r.returned = <<>> THEN <<>> ELSE r.returned[1].postings

\* the two legs processed in the other order, from the same lots
OtherOrder ==
    LET c == SplitCommodity
        without == [x \in DOMAIN split_last.cache \ {c} |-> split_last.cache[x]]
        first == SplitParserCall(lots, without, TRUE,
                   CommoditySplitAction(last.date, c, last.delta, last.avg),
                   BaseAccount, trade_fees_account, FALSE, end_date)
    IN  SplitParserCall(first.lots, first.cache, TRUE,
          CommoditySplitAction(last.date, c, PendingQuantity, last.avg),
          BaseAccount, trade_fees_account, split_last.could_not_balance, end_date)

\* C13: the first leg processed for a commodity returns no transaction and is
\* cached as the sell-leg if quantity * net lot quantity <= 0 and as the
\* buy-leg otherwise; the second leg, the other half of the split, fills in the
\* missing quantity and returns a transaction with ratio = -sell_qty / buy_qty;
\* the ratio and the postings are those the two legs give in the other order.
C13_TwoLegs ==
    /\ IsFirstLeg =>
          /\ last.status = "ok" /\ split_last.returned = <<>>
          /\ SplitCommodity \in DOMAIN cache
          /\ IF last.delta * NetPosition(LastKeyPre) <= 0
             THEN cache[SplitCommodity].sell = <<last.delta>>
                  /\ cache[SplitCommodity].buy = NoQuantity
             ELSE cache[SplitCommodity].buy = <<last.delta>>
                  /\ cache[SplitCommodity].sell = NoQuantity
    /\ IsSecondLeg =>
          LET sell_qty == IF Pending.sell = NoQuantity THEN last.delta ELSE PendingQuantity
              buy_qty == IF Pending.sell = NoQuantity THEN PendingQuantity ELSE last.delta
          IN  /\ last.status = "ok" /\ Len(split_last.returned) = 1
              /\ cache[SplitCommodity].sell = <<sell_qty>>
              /\ cache[SplitCommodity].buy = <<buy_qty>>
              /\ split_last.ratio = Frac(-sell_qty, buy_qty)
              /\ OtherOrder.status = "ok"
              /\ OtherOrder.ratio = split_last.ratio
              /\ ReturnedPostings(OtherOrder) = ReturnedPostings(split_last)

\* the buy-leg +20 arrived first, the sell-leg -10 second, on lots of 10: 0.5
C13_Witness ==
    /\ IsSecondLeg
    /\ Pending.buy = <<20>> /\ last.delta = -10
    /\ NetPosition(LastKeyPre) = 10
    /\ split_last.ratio = Frac(1, 2)
    /\ Len(split_last.returned) = 1

(* ----------------------------------------------------------------- C14 *)
\* C14: after the second leg of a split every lot of the commodity held in the
\* lot store has quantity = old quantity / ratio and unit cost = old unit cost
\* * ratio (a lot of 5 at 100 becomes 10 at 50 after sell -10 / buy +20), so
\* that later trades observe the rescaled lots.
C14_StoreRescaled ==
    (IsSecondLeg /\ last.status = "ok") =>
        /\ Len(LastKeyPost) = Len(LastKeyPre)
        /\ \A i \in 1..Len(LastKeyPre) :
              /\ LastKeyPost[i].date = LastKeyPre[i].date
              /\ Dec(LastKeyPost[i].quantity)
                   = DDiv(Dec(LastKeyPre[i].quantity), split_last.ratio)
              /\ UnitPrice(LastKeyPost[i]).value
                   = DMul(UnitPrice(LastKeyPre[i]).value, split_last.ratio)

(* ----------------------------------------------------------------- C15 *)
LegQuantities == [i \in 1..Len(legs) |-> legs[i].quantity]
\* a 2-for-1 split followed by a 1-for-2 reverse split of one commodity holding
\* 10, each in either order of its legs
RoundTrip ==
    /\ last.op = "split"
    /\ Len(legs) = 4
    /\ \A i \in 1..4 : legs[i].commodity = SplitCommodity
    /\ NetPosition(legs[1].lots) = 10
    /\ LegQuantities \in {<<-10, 20, -20, 10>>, <<20, -10, -20, 10>>,
                          <<-10, 20, 10, -20>>, <<20, -10, 10, -20>>}

\* C15: after a 2-for-1 split and a 1-for-2 reverse split of the same commodity
\* in one session every lot has its original quantity and unit cost again, and
\* the second split's transaction re-establishes each lot at its original
\* quantity and price.
C15_SplitRoundTrip ==
    RoundTrip =>
        LET original == legs[1].lots
            ps == ReturnedPostings(split_last)
        IN  /\ last.status = "ok"
            /\ LastKeyPost = original
            /\ Len(ps) >= 2 * Len(original)
            /\ \A i \in 1..Len(original) :
                  /\ ps[2 * i].account.date = original[i].date
                  /\ ps[2 * i].amount.value = Dec(original[i].quantity)
                  /\ ps[2 * i].price = original[i].price

(* ----------------------------------------------------------------- C16 *)
SplitLotAccount(lot) ==
    [path |-> <<BaseAccount>>, commodity |-> Lower(SplitCommodity), date |-> lot.date]

IsGainAccount(account) ==
    account.path \in {<<accounts.long_term_account>>, <<accounts.short_term_account>>}

\* C16: the transaction a split leg returns holds, for each lot in turn, two
\* postings under the lot's dated account base_account:commodity:YYYYMMDD, a
\* draw-down of -old_quantity at the old price and a re-establishment of
\* old_quantity / ratio at old_price * ratio, and no gain/loss posting; one
\* posting to the fees account, without amount, follows if and only if the
\* balance check reports the transaction unbalanced.
C16_SplitTransaction ==
    (IsSplit /\ split_last.returned # <<>>) =>
        LET ps == ReturnedPostings(split_last)
            a == LastKeyPre
            n == Len(a)
        IN  /\ Len(ps) = 2 * n + (IF split_last.could_not_balance THEN 1 ELSE 0)
            /\ \A i \in 1..n :
                  /\ ps[2 * i - 1].account = SplitLotAccount(a[i])
                  /\ ps[2 * i - 1].amount.value = Dec(-a[i].quantity)
                  /\ ps[2 * i - 1].price = a[i].price
                  /\ ps[2 * i].account = SplitLotAccount(a[i])
                  /\ ps[2 * i].amount.value = DDiv(Dec(a[i].quantity), split_last.ratio)
                  /\ ps[2 * i].price.price_type = a[i].price.price_type
                  /\ ps[2 * i].price.value = DMul(a[i].price.value, split_last.ratio)
            /\ \A j \in 1..Len(ps) : ~IsGainAccount(ps[j].account)
            /\ split_last.could_not_balance =>
                  /\ ps[Len(ps)].account.path = <<trade_fees_account>>
                  /\ ps[Len(ps)].amount = NoAmount /\ ps[Len(ps)].price = NoPrice

\* a 2-for-1 split of two lots that balances: four postings, 5 at 100 re-established
\* as 10 at 50
C16_Witness ==
    /\ IsSecondLeg /\ last.status = "ok"
    /\ ~split_last.could_not_balance
    /\ split_last.ratio = Frac(1, 2)
    /\ Len(ReturnedPostings(split_last)) = 4
    /\ ReturnedPostings(split_last)[2].amount.value = Dec(10)
    /\ ReturnedPostings(split_last)[2].price.value = Dec(50)

(* ----------------------------------------------------------------- C17 *)
\* the processor has its lot store and, for fidelity._SplitParser, its base
\* account
Wired == lots_manager /\ (parser = "fidelity" => base_account # "")
SplitUnchanged == cache = split_last.cache /\ lots = split_last.lots

\* C17 as stated: a call for a commodity with no pending first leg, or on a
\* processor that is not wired, fails with SplitNotInitialized and leaves the
\* split cache and the lot store unchanged.
C17_NoPendingLegOrUnwiredFails ==
    (last.op = "split" /\ (SplitCommodity \notin DOMAIN split_last.cache \/ ~Wired)) =>
        last.status = "NotInitialized" /\ SplitUnchanged

\* C17 amended: a call fails with SplitNotInitialized exactly when the
\* processor is not wired, and then leaves the split cache and the lot store
\* unchanged and returns nothing.
C17_UnwiredFails ==
    last.op = "split" =>
        /\ (last.status = "NotInitialized") = ~Wired
        /\ ~Wired => SplitUnchanged /\ split_last.returned = <<>>

\* fidelity._SplitParser with its lots manager but no base account, called
\* when the lot store already holds lots
C17_Witness ==
    /\ last.op = "split" /\ last.status = "NotInitialized"
    /\ parser = "fidelity" /\ lots_manager /\ base_account = ""
    /\ DOMAIN lots # {}

\* C18: trade_lots terminates for every input and every reachable lot store;
\* in particular an aggregate FIFO close terminates when a lot after the
\* first one has quantity zero, left behind by an earlier close that drained it
C18_TradeLotsTerminates ==
    last.op = "trade_lots" => last.status # "hang"

\* the particular case: an aggregate close larger than the first lot, with a
\* drained lot right behind it
DrainedLotAfterFirst ==
    /\ IsAggregate /\ Len(LastKeyPre) >= 2
    /\ LastKeyPre[1].quantity * last.delta < 0
    /\ Abs(last.delta) > Abs(LastKeyPre[1].quantity)
    /\ LastKeyPre[2].quantity = 0

\* C19: after any sequence of get_lots, add_lot, sell_from_lot, trade_lots and
\* split operations, the lots of every (account, commodity) key are sorted
\* ascending by acquired date
SortedByDate(a) == \A i \in 1..(Len(a) - 1) : a[i].date <= a[i + 1].date

C19_LotsSortedByDate ==
    /\ \A k \in DOMAIN lots : SortedByDate(lots[k])
    /\ \A k \in Keys : SortedByDate(View(lots, end_date)[k])
    /\ \A k \in DOMAIN cache : SortedByDate(View(lots, end_date)[cache[k].key])

\* a lot was added in front of a later lot of its key
C19_Witness ==
    /\ last.op \in {"add_lot", "trade_lots"} /\ last.status = "ok"
    /\ Len(LastKeyPost) = Len(LastKeyPre) + 1
    /\ Len(LastKeyPre) >= 1
    /\ last.date < LastKeyPre[Len(LastKeyPre)].date
    /\ C19_LotsSortedByDate

\* C20: after any sequence of add_lot and trade_lots operations (two opening
\* trades of the same commodity on the same date included), every
\* (account, commodity) key holds at most one lot per exact acquired date
OneLotPerDate(a) == \A i, j \in 1..Len(a) : a[i].date = a[j].date => i = j

C20_OneLotPerDate ==
    (last.op \in {"add_lot", "trade_lots"} /\ OneLotPerDate(LastKeyPre)) =>
        OneLotPerDate(LastKeyPost)

\* the claim's case: a second opening trade of the key on the same date
SecondOpeningSameDate ==
    /\ IsTrade /\ last.status = "ok" /\ last.kind = "open"
    /\ \E i \in 1..Len(LastKeyPre) : LastKeyPre[i].date = last.date

\* C21: across trade_lots calls (aggregate or specific-lot form, deltas of
\* either sign) and sell_from_lot calls, the magnitude of an existing lot
\* never increases and its quantity never changes sign
\* b holds the lots of a, each no larger in magnitude and of the same sign
ShrunkFrom(a, b) ==
    /\ Len(a) = Len(b)
    /\ \A i \in 1..Len(a) :
          /\ b[i].date = a[i].date
          /\ Abs(b[i].quantity) <= Abs(a[i].quantity)
          /\ b[i].quantity * a[i].quantity >= 0

\* the lots that existed before the latest call, as they are after it
ExistingLotsShrunk ==
    \/ ShrunkFrom(LastKeyPre, LastKeyPost)
    \/ \E j \in 1..Len(LastKeyPost) : ShrunkFrom(LastKeyPre, RemoveAt(LastKeyPost, j))

C21_MagnitudeNeverIncreases ==
    last.op \in {"trade_lots", "sell_from_lot"} => ExistingLotsShrunk

\* C22: no operation removes a lot from the store: the number of lots of a key
\* never decreases, a fully closed lot stays in the sequence at quantity zero
\* with its date and unit cost unchanged, and a closing trade leaves the
\* number of lots unchanged
KeptIn(a, b) ==
    /\ Len(a) = Len(b)
    /\ \A i \in 1..Len(a) :
          /\ b[i].date = a[i].date /\ b[i].price = a[i].price
          /\ a[i].quantity = 0 => b[i].quantity = 0

\* every lot of a is in b, in the same order, and b has at most one lot more
LotsKept(a, b) ==
    \/ KeptIn(a, b)
    \/ \E j \in 1..Len(b) : KeptIn(a, RemoveAt(b, j))

C22_NoLotRemoved ==
    [][/\ \A k \in DOMAIN lots : k \in DOMAIN lots' /\ LotsKept(lots[k], lots'[k])
       /\ (last'.op = "trade_lots" /\ last'.kind = "close") =>
              Len(View(lots', end_date')[last'.key]) =
                  Len(View(lots, end_date)[last'.key])]_vars

\* a drained lot is still in place after a later operation on its key
C22_Witness ==
    /\ last.op \in {"add_lot", "trade_lots", "sell_from_lot"} /\ last.status = "ok"
    /\ \E i \in 1..Len(LastKeyPre) :
          /\ LastKeyPre[i].quantity = 0
          /\ JournalRows(last.key)[i].quantity # 0
          /\ \E j \in 1..Len(LastKeyPost) :
                /\ LastKeyPost[j].quantity = 0
                /\ LastKeyPost[j].date = LastKeyPre[i].date
    /\ LastKeyPost # LastKeyPre

\* C23: get_lot returns a lot only when a lot with exactly the requested date
\* exists for the key; for any other date (before the first lot, after the
\* last, strictly between two lots) it returns not-found; it never modifies
\* the store's lots
HasLotDated(a, date) == \E i \in 1..Len(a) : a[i].date = date

C23_GetLotExactDate ==
    last.op = "get_lot" =>
        /\ (last.found # 0) = HasLotDated(LastKeyPre, last.date)
        /\ last.found # 0 =>
              /\ last.found \in 1..Len(LastKeyPost)
              /\ LastKeyPost[last.found].date = last.date
        /\ View(lots, end_date) = last.pre

\* a lookup of a date strictly between two lots of the key
C23_Witness ==
    /\ last.op = "get_lot" /\ last.found = 0
    /\ \E i \in 1..(Len(LastKeyPre) - 1) :
          LastKeyPre[i].date < last.date /\ last.date < LastKeyPre[i + 1].date

\* C24: the lot source is queried at most once per key in a manager's
\* lifetime, on the first get_lots, get_lot, add_lot or sell_from_lot that
\* touches the key; every later access works on the cached, mutated sequence,
\* also when the source returned no lots
\* (the source is queried in a step exactly for the keys that enter the dict)
Fetched(k) == k \notin DOMAIN lots /\ k \in DOMAIN lots'

C24_FetchedOncePerKey ==
    [][/\ \A k \in Keys : Fetched(k) =>
              /\ k = last'.key
              /\ last'.op \in {"get_lots", "get_lot", "add_lot", "sell_from_lot"}
       /\ \A k \in DOMAIN lots :
              /\ k \in DOMAIN lots'
              /\ k # last'.key => lots'[k] = lots[k]
              /\ last'.op \in {"get_lots", "get_lot", "end_date"} => lots'[k] = lots[k]
              /\ (last'.op = "add_lot" /\ k = last'.key) =>
                     \E j \in 1..Len(lots'[k]) : RemoveAt(lots'[k], j) = lots[k]
              /\ (last'.op = "sell_from_lot" /\ k = last'.key) =>
                     \/ lots'[k] = lots[k]
                     \/ \E i \in 1..Len(lots[k]) :
                           lots'[k] = [lots[k] EXCEPT ![i].quantity = @ - last'.delta]
      ]_vars

\* a key cached with no lots is read again when the source would now return
\* lots for it
C24_Witness ==
    /\ last.op = "get_lots" /\ last.key \in DOMAIN lots
    /\ lots[last.key] = <<>> /\ LastKeyPre = <<>>
    /\ get_commodity_lots(last.key, end_date) # <<>>

\* C25: setting the end date of the lot store changes the lots loaded for keys
\* first accessed afterwards and has no effect on keys already cached: their
\* lot sequences are unchanged and are not re-fetched
LoadedUnder(a, k, e) ==
    /\ \A i \in 1..Len(a) : e = NoDate \/ a[i].date < e
    /\ a = SortLots(SelectSeq(JournalRows(k), LAMBDA row : e = NoDate \/ row.date < e))

C25_EndDateFrame ==
    [][/\ last'.op = "end_date" => lots' = lots /\ end_date' = last'.date
       /\ last'.op \in {"get_lots", "get_lot"} =>
             /\ end_date' = end_date
             /\ \A k \in DOMAIN lots : lots'[k] = lots[k]
             /\ \A k \in Keys : Fetched(k) => LoadedUnder(lots'[k], k, end_date)
      ]_vars

\* one key cached before the end date was set and still whole, another loaded
\* after it and cut at the end date
C25_Witness ==
    /\ last.op = "get_lots" /\ end_date # NoDate
    /\ lots[last.key] # get_commodity_lots(last.key, NoDate)
    /\ \E k \in DOMAIN lots :
          /\ k # last.key
          /\ lots[k] = get_commodity_lots(k, NoDate)
          /\ lots[k] # get_commodity_lots(k, end_date)

\* C26: map_options_commodity_symbol strips surrounding whitespace and
\* leading/trailing "+" and "-", maps each digit 0..9 to the letter a..j and "."
\* to "_", and leaves every other character unchanged; the substitution is
\* lossless: two different stripped symbols never map to the same ledger symbol
Stripped(s) == Strip(Strip(s, {" "}), {"-", "+"})

SubstitutedChar(c) ==
    CASE c = "0" -> "a" [] c = "1" -> "b" [] c = "2" -> "c" [] c = "3" -> "d"
      [] c = "4" -> "e" [] c = "5" -> "f" [] c = "6" -> "g" [] c = "7" -> "h"
      [] c = "8" -> "i" [] c = "9" -> "j" [] c = "." -> "_" [] OTHER -> c

C26_Substitution ==
    symbol_call.returned =>
        LET s == Stripped(symbol_call.with_numbers)
        IN  /\ Len(symbol_call.result) = Len(s)
            /\ \A i \in 1..Len(s) : symbol_call.result[i] = SubstitutedChar(s[i])

C26_LosslessSubstitution ==
    /\ C26_Substitution
    /\ symbol_call.returned =>
          \A t \in Symbols :
              Stripped(t) # Stripped(symbol_call.with_numbers) =>
                  map_options_commodity_symbol(t) # symbol_call.result

\* C27: the lots rescaled in the transaction of a split's second leg are
\* exactly the lots captured when the first leg arrived, with the quantities
\* and prices they had then: a lot added to, or a reduction applied to, that
\* key between the two legs does not appear in the split transaction
\* the lots of the commodity when its first leg arrived
CapturedLots ==
    legs[CHOOSE i \in 1..Len(legs) :
           /\ legs[i].commodity = SplitCommodity
           /\ \A j \in 1..(i - 1) : legs[j].commodity # SplitCommodity].lots

ChangedBetweenLegs == IsSecondLeg /\ last.status = "ok" /\ LastKeyPre # CapturedLots

C27_SplitUsesCapturedLots ==
    (IsSecondLeg /\ last.status = "ok") =>
        LET ps == ReturnedPostings(split_last)
        IN  /\ Len(ps) = 2 * Len(CapturedLots)
            /\ \A i \in 1..Len(CapturedLots) :
                  /\ ps[2 * i - 1].account.date = CapturedLots[i].date
                  /\ ps[2 * i - 1].amount.value = Dec(-CapturedLots[i].quantity)
                  /\ ps[2 * i - 1].price = CapturedLots[i].price
                  /\ ps[2 * i].amount.value =
                        DDiv(Dec(CapturedLots[i].quantity), split_last.ratio)

\* C28: the pending-split entry of a commodity is never cleared within a
\* SplitParser's lifetime: once the first leg of a commodity has been seen,
\* every later leg of that commodity (the 2nd, 3rd, 4th, ...) returns a
\* transaction immediately, computed from the latest sell and buy quantities
\* recorded so far, so n legs of one commodity yield n - 1 transactions
IsLaterLeg == IsSplit /\ SplitCommodity \in DOMAIN split_last.cache
LegsOf(c) == {i \in 1..Len(legs) : legs[i].commodity = c}
TransactionsOf(c) == {i \in LegsOf(c) : legs[i].returned}
Recorded == cache[SplitCommodity]

\* a sell leg and a buy leg of the commodity are among its legs up to the i-th
BothHalvesBy(c, i) ==
    \E j, l \in {x \in LegsOf(c) : x <= i} :
        /\ IsSellHalf(legs[j].quantity, legs[j].lots)
        /\ ~IsSellHalf(legs[l].quantity, legs[l].lots)

\* the transaction of the latest leg is computed from the recorded quantities
FromRecordedQuantities ==
    /\ last.status = "ok" /\ Len(split_last.returned) = 1
    /\ Recorded.sell # NoQuantity /\ Recorded.buy # NoQuantity
    /\ last.delta \in {Recorded.sell[1], Recorded.buy[1]}
    /\ split_last.ratio = DDiv(Dec(-Recorded.sell[1]), Dec(Recorded.buy[1]))
    /\ SubSeq(split_last.returned[1].postings, 1, 2 * Len(LastKeyPre))
         = SplitPostings(LastKeyPre, SplitCommodity, BaseAccount, split_last.ratio)

NeverCleared ==
    /\ DOMAIN split_last.cache \subseteq DOMAIN cache
    /\ \A i \in 1..Len(legs) : legs[i].commodity \in DOMAIN cache

C28_EveryLaterLegReturns ==
    /\ NeverCleared
    /\ IsLaterLeg => FromRecordedQuantities
    /\ \A c \in DOMAIN cache :
          Cardinality(TransactionsOf(c)) = Cardinality(LegsOf(c)) - 1

\* the amended statement: a later leg returns a transaction when a sell and a
\* buy quantity are both recorded, and fails with a TypeError otherwise
C28_LaterLegReturnsOnceBothRecorded ==
    /\ NeverCleared
    /\ IsLaterLeg =>
          IF Recorded.sell # NoQuantity /\ Recorded.buy # NoQuantity
          THEN FromRecordedQuantities
          ELSE last.status = "TypeError" /\ split_last.returned = <<>>
    /\ \A c \in DOMAIN cache : \A i \in LegsOf(c) :
          legs[i].returned = BothHalvesBy(c, i)
    /\ \A c \in DOMAIN cache :
          (\E i \in LegsOf(c) : BothHalvesBy(c, i) /\ Cardinality({j \in LegsOf(c) : j <= i}) = 2) =>
              Cardinality(TransactionsOf(c)) = Cardinality(LegsOf(c)) - 1

\* the third and the fourth leg of a commodity each returned a transaction
C28_Witness ==
    /\ IsLaterLeg /\ last.status = "ok"
    /\ Cardinality(LegsOf(SplitCommodity)) = 4
    /\ Cardinality(TransactionsOf(SplitCommodity)) = 3

\* C29: every aggregate-delta trade_lots call that returns normally changes
\* the net position of its key, the sum of all lot quantities, by exactly
\* delta, whether handled as an opening or as a closing trade, and leaves the
\* lots of every other key unchanged
C29_NetPositionChangesByDelta ==
    (IsAggregate /\ last.status = "ok") =>
        /\ NetPosition(LastKeyPost) = NetPosition(LastKeyPre) + last.delta
        /\ \A k \in Keys \ {last.key} : View(lots, end_date)[k] = last.pre[k]

\* the close asks for more than the lots hold
Overdrawn ==
    /\ IsAggregate /\ last.kind = "close"
    /\ Abs(last.delta) > Abs(NetPosition(LastKeyPre))

\* C30: starting from a lot source whose lots of a key all have the same sign,
\* after any sequence of aggregate-delta trade_lots calls all lots of a key
\* with non-zero quantity have the same sign: a key never holds a long lot and
\* a short lot at the same time
SameSign(a) == \A i, j \in 1..Len(a) : a[i].quantity * a[j].quantity >= 0

C30_NoLongAndShortLots ==
    \A k \in Keys : SameSign(View(lots, end_date)[k])
====
